---------------------------- MODULE Spec2Model ----------------------------
(***************************************************************************)
(* Landing-prediction physics engine of the telemetry ground station       *)
(* (src/utils/geo.ts): getAirDensity, getWindAtAltitude, displaceCoordinate *)
(* and predictLanding.                                                     *)
(*                                                                         *)
(* Numbers.  The source computes in IEEE doubles; the model computes in    *)
(* fixed point.  Unless said otherwise a quantity is held in thousandths   *)
(* of its source unit (altitude in mm, speed in mm/s, time in ms, mass in  *)
(* g, area in 1e-3 m^2, angles in millidegrees, weights in thousandths).   *)
(* Latitude and longitude are held in 1e-7 degrees, densities in mg/m^3.   *)
(* Products and quotients are truncated toward zero to the unit, so the    *)
(* model follows the source's formulas operation by operation up to that   *)
(* rounding; it does not represent the rounding of doubles themselves.     *)
(***************************************************************************)
EXTENDS Integers, Sequences, FiniteSets, TLC

\* One source unit in model units (thousandths).
Unit == 10 * 10 * 10

\* One degree of latitude/longitude in model units (1e-7 degree).
DegUnit == 10000 * Unit

----------------------------------------------------------------------------
(* Fixed-point arithmetic standing for the source's double arithmetic.     *)

Abs(x) == IF x < 0 THEN -x ELSE x

Sign(x) == IF x < 0 THEN -1 ELSE 1

Min(a, b) == IF a <= b THEN a ELSE b

Max(a, b) == IF a >= b THEN a ELSE b

\* x * y / Unit for naturals x >= y, without leaving 32 bits.
MulNat[x \in Int, y \in Int] == (x \div Unit) * y + ((x % Unit) * y) \div Unit

\* a * b of two fixed-point numbers, truncated toward zero.
Mul[a \in Int, b \in Int] ==
  LET x == Max(Abs(a), Abs(b))
      y == Min(Abs(a), Abs(b))
  IN  Sign(a) * Sign(b) * MulNat[x, y]

\* x / y of naturals in fixed point (y > 0), without leaving 32 bits.
DivNat[x \in Int, y \in Int] ==
  LET q == x \div y
      r == x % y
  IN  IF y <= 2000000
        THEN q * Unit + (r * Unit) \div y
        ELSE q * Unit + Min(Unit - 1, r \div (y \div Unit))

\* a / b of two fixed-point numbers (b # 0), truncated toward zero.
Div[a \in Int, b \in Int] == Sign(a) * Sign(b) * DivNat[Abs(a), Abs(b)]

\* JavaScript's % : the remainder takes the sign of the dividend.
JsRem[a \in Int, n \in Int] == Sign(a) * (Abs(a) % n)

\* Newton's iteration from a guess g >= sqrt(n): the integer square root.
IsqrtFrom[n \in Int, g \in Int] ==
  LET h == (g + n \div g) \div 2
  IN  IF h >= g THEN g ELSE IsqrtFrom[n, h]

Isqrt[n \in Int] == IF n <= 0 THEN 0 ELSE IsqrtFrom[n, Min(n, 46340)]

\* Math.sqrt of a fixed-point number x >= 0.
Sqrt[x \in Int] ==
  IF x <= 2000000 THEN Isqrt[x * Unit]
  ELSE IF x <= 200000000 THEN Isqrt[x * 10] * 10
  ELSE Isqrt[x \div 10] * 100

\* Degrees (millidegrees) to radians (milliradians): angle * Math.PI / 180,
\* for |angle| <= 90 degrees.
ToRad[mdeg \in Int] == (mdeg * 17453) \div (Unit * Unit)

\* Taylor polynomials on [0, pi/4], in fixed point.
SinSmall[x \in Int] ==
  LET x2 == Mul[x, x]
      x3 == Mul[x2, x]
      x5 == Mul[x3, x2]
  IN  x - x3 \div 6 + x5 \div 120

CosSmall[x \in Int] ==
  LET x2 == Mul[x, x]
      x4 == Mul[x2, x2]
      x6 == Mul[x4, x2]
  IN  Unit - x2 \div 2 + x4 \div 24 - x6 \div 720

\* cos and sin of an angle in [0, 90] degrees.
CosQ[mdeg \in Int] ==
  IF mdeg <= 45 * Unit THEN CosSmall[ToRad[mdeg]]
  ELSE SinSmall[ToRad[90 * Unit - mdeg]]

SinQ[mdeg \in Int] == CosQ[90 * Unit - mdeg]

\* Math.cos(angle * Math.PI / 180), angle in millidegrees.
Cos[mdeg \in Int] ==
  LET a == Abs(mdeg) % (360 * Unit)
  IN  IF a <= 90 * Unit THEN CosQ[a]
      ELSE IF a <= 180 * Unit THEN -CosQ[180 * Unit - a]
      ELSE IF a <= 270 * Unit THEN -CosQ[a - 180 * Unit]
      ELSE CosQ[360 * Unit - a]

\* Math.sin(angle * Math.PI / 180), angle in millidegrees.
Sin[mdeg \in Int] ==
  LET a == Abs(mdeg) % (360 * Unit)
      s == IF a <= 90 * Unit THEN SinQ[a]
           ELSE IF a <= 180 * Unit THEN SinQ[180 * Unit - a]
           ELSE IF a <= 270 * Unit THEN -SinQ[a - 180 * Unit]
           ELSE -SinQ[360 * Unit - a]
  IN  Sign(mdeg) * s

----------------------------------------------------------------------------
(* Constants of geo.ts, in model units.                                     *)

R_EARTH == 6371000      \* m

G == 9810               \* 9.81 m/s^2

R_GAS == 287050         \* 287.05 J/(kg K)

T_STD == 288150         \* 288.15 K

P_STD == 101325         \* Pa

L_RATE == 6500          \* 0.0065 K/m, in millionths

\* The exponent 5.2561 of the barometric formula, in ten-thousandths.
BARO_EXP == 52561

\* Densities are held in millionths of kg/m^3 (mg/m^3): the ISA density at
\* 40 km is below one thousandth.
Micro == Unit * Unit

\* a * b / Micro for naturals a, b, without leaving 32 bits.
MulMicroNat[a \in Int, b \in Int] ==
  LET a1 == a \div Unit
      a0 == a % Unit
      b1 == b \div Unit
      b0 == b % Unit
  IN  a1 * b1 + (a1 * b0 + a0 * b1 + (a0 * b0) \div Unit) \div Unit

\* A density (millionths) times a fixed-point number: a fixed-point number.
MulDensity[rho \in Int, b \in Int] == Sign(rho) * Sign(b) * MulMicroNat[Abs(rho), Abs(b)]

\* a / b in millionths, for naturals a and 0 < b <= 2000000.
DivMicroNat[a \in Int, b \in Int] ==
  LET q  == a \div b
      r  == a % b
      t1 == (r * Unit) \div b
      r1 == (r * Unit) % b
      t0 == (r1 * Unit) \div b
  IN  q * Micro + t1 * Unit + t0

\* The series 2 (z + z^3/3 + z^5/5 + z^7/7 + z^9/9) of 2 atanh z, given z
\* and z2 = z * z, in fixed point.
AtanhSeries[z \in Int, z2 \in Int] ==
  2 * Mul[z, Unit + Mul[z2, 333 + Mul[z2, 200 + Mul[z2, 143 + Mul[z2, 111]]]]]

TwiceAtanh[z \in Int] == AtanhSeries[z, Mul[z, z]]

\* Natural logarithm of x (millionths, x > 0), in fixed point:
\* ln x = 2 atanh((x-1)/(x+1)).
Ln[x \in Int] == TwiceAtanh[Div[(x - Micro) \div Unit, (x + Micro) \div Unit]]

\* exp(e) to second order, in fixed point.
ExpSmall[e \in Int] == Unit + e + Mul[e, e] \div 2

\* x^4 given x^2, and x^5 given x^4 and x, in millionths.
Squared[x \in Int] == MulMicroNat[x, x]

\* The square root of x in millionths, in millionths.
SqrtMicro[x \in Int] == Isqrt[x * 100] * 100

\* Math.pow(x, 5.2561) for x > 0 in millionths, in millionths:
\* x^5 * x^(1/4) * x^0.0061, the last factor as exp(0.0061 ln x) to second
\* order.
PowBaro[x \in Int] ==
  MulMicroNat[MulMicroNat[MulMicroNat[Squared[Squared[x]], x],
                          SqrtMicro[SqrtMicro[x]]],
              ExpSmall[((BARO_EXP - 52500) * Ln[x]) \div 10000] * Unit]

\* L_RATE * altitude, in fixed point (K).
LapseAt[altitude \in Int] == (altitude * (L_RATE \div 500)) \div 2000

\* 1 - (L_RATE * altitude) / T_STD, in millionths, given L_RATE * altitude.
BaroBase[drop \in Int] ==
  IF drop >= 0 THEN Micro - DivMicroNat[drop, T_STD]
  ELSE Micro + DivMicroNat[-drop, T_STD]

\* P_STD * pw for pw in millionths, in Pa (fixed point).
TimesPStd[pw \in Int] == (pw \div Unit) * P_STD + ((pw % Unit) * P_STD) \div Unit

\* P_STD * Math.pow(1 - (L_RATE * altitude) / T_STD, 5.2561), in Pa
\* (fixed point), for altitudes where the base is positive.
PressureAt[altitude \in Int] == TimesPStd[PowBaro[BaroBase[LapseAt[altitude]]]]

\* pressure / (R_GAS * temperature): the ISA density, in millionths.
IsaDensity[altitude \in Int] ==
  DivNat[PressureAt[altitude], Mul[R_GAS, T_STD - LapseAt[altitude]] \div Unit]

\* The calibration of the ISA density isaDensity by a reference density
\* measured at refAlt: isaDensity * (refDensity / refIsaDensity) when a
\* reference above 0.1 kg/m^3 is given.
Calibrated[isaDensity \in Int, refDensity \in Int, refAlt \in Int] ==
  IF refDensity > 100000
    THEN Mul[isaDensity, Div[refDensity, IsaDensity[refAlt]]]
    ELSE isaDensity

\* getAirDensity(altitude, refDensity, refAlt): kg/m^3 in millionths.
getAirDensity(altitude, refDensity, refAlt) ==
  IF altitude > 40000 * Unit THEN 0
  ELSE Calibrated[IsaDensity[altitude], refDensity, refAlt]

\* What a direct caller of getAirDensity receives: a number or NaN.
NaN == [nan |-> TRUE]

Finite(v) == [value |-> v]

\* getAirDensity over all arguments.  For refAlt above 44,330 m the base
\* 1 - (L_RATE * refAlt) / T_STD is negative, and Math.pow of a negative
\* base to the power 5.2561 is NaN: refPress, refIsaDensity, factor and
\* the product returned are NaN.
getAirDensityValue(altitude, refDensity, refAlt) ==
  IF altitude > 40000 * Unit THEN Finite(0)
  ELSE IF refDensity > 100000 /\ BaroBase[LapseAt[refAlt]] < 0 THEN NaN
  ELSE Finite(getAirDensity(altitude, refDensity, refAlt))

----------------------------------------------------------------------------
(* getWindAtAltitude and displaceCoordinate.                                *)

\* The search for the bounding pair begun at the second layer.
BoundingPairFromSecond(alt_, layers, i) ==
  IF Len(layers) < 3 THEN 0
  ELSE IF \E j \in 2..(Len(layers) - 1) :
            alt_ >= layers[j].altitude /\ alt_ <= layers[j + 1].altitude
    THEN CHOOSE j \in 2..(Len(layers) - 1) :
           /\ alt_ >= layers[j].altitude /\ alt_ <= layers[j + 1].altitude
           /\ \A h \in 2..(j - 1) :
                ~(alt_ >= layers[h].altitude /\ alt_ <= layers[h + 1].altitude)
  ELSE 0

\* The search for the bounding pair with both comparisons strict.
RECURSIVE BoundingPairStrict(_, _, _)
BoundingPairStrict(alt_, layers, i) ==
  IF i > Len(layers) - 1 THEN 0
  ELSE IF alt_ > layers[i].altitude /\ alt_ < layers[i + 1].altitude THEN i
  ELSE BoundingPairStrict(alt_, layers, i + 1)

\* The first index i (0-based in the source, 1-based here) of the loop at
\* geo.ts:128 whose pair of layers bounds alt; 0 when no pair does.
RECURSIVE BoundingPair(_, _, _)
BoundingPair(alt_, layers, i) ==
  IF i > Len(layers) - 1 THEN 0
  ELSE IF alt_ >= layers[i].altitude /\ alt_ <= layers[i + 1].altitude THEN i
  ELSE BoundingPair(alt_, layers, i + 1)

\* The interpolation with the direction taken along the shorter arc of the
\* compass (a difference beyond 180 degrees is wrapped by 360).
InterpolateWrapped(alt_, lower, upper) ==
  LET ratio == Div[alt_ - lower.altitude, upper.altitude - lower.altitude]
      turn  == upper.direction - lower.direction
      arc   == IF turn > 180000 THEN turn - 360000
               ELSE IF turn < -180000 THEN turn + 360000
               ELSE turn
  IN  [speed |-> lower.speed + Mul[upper.speed - lower.speed, ratio],
       dir   |-> (lower.direction + Mul[arc, ratio]) % 360000]

\* lower + (upper - lower) * ratio, ratio the altitude fraction.
Interpolate(alt_, lower, upper) ==
  LET ratio == Div[alt_ - lower.altitude, upper.altitude - lower.altitude]
  IN  [speed |-> lower.speed + Mul[upper.speed - lower.speed, ratio],
       dir   |-> lower.direction + Mul[upper.direction - lower.direction, ratio]]

\* a ?? b ?? 0 on the fields of a settings object: an absent field is
\* undefined.
Coalesce(settings, a, b) ==
  IF a \in DOMAIN settings THEN settings[a]
  ELSE IF b \in DOMAIN settings THEN settings[b]
  ELSE 0

\* getWindAtAltitude without the clamps below the lowest and above the
\* highest layer.
getWindUnclamped(alt_, settings) ==
  IF settings.mode = "single"
    THEN [speed |-> Coalesce(settings, "speed", "windSpeed"),
          dir   |-> Coalesce(settings, "direction", "windDirection")]
  ELSE LET layers == IF "layers" \in DOMAIN settings THEN settings.layers ELSE <<>>
           i      == BoundingPair(alt_, layers, 1)
       IN  IF i # 0 THEN Interpolate(alt_, layers[i], layers[i + 1])
           ELSE [speed |-> 0, dir |-> 0]

LayerValueOf(l) == [speed |-> l.speed, dir |-> l.direction]

\* getWindAtAltitude with an empty layer set answered by the field's own
\* speed and direction, as in single mode.
getWindBaseForEmpty(alt_, settings) ==
  LET layers == IF "layers" \in DOMAIN settings THEN settings.layers ELSE <<>>
  IN  IF settings.mode = "single" \/ Len(layers) = 0
        THEN [speed |-> Coalesce(settings, "speed", "windSpeed"),
              dir   |-> Coalesce(settings, "direction", "windDirection")]
      ELSE IF alt_ <= layers[1].altitude THEN LayerValueOf(layers[1])
      ELSE IF alt_ >= layers[Len(layers)].altitude
        THEN LayerValueOf(layers[Len(layers)])
      ELSE getWindUnclamped(alt_, settings)

getWindAtAltitude(alt_, settings) ==
  IF settings.mode = "single"
    THEN [speed |-> Coalesce(settings, "speed", "windSpeed"),
          dir   |-> Coalesce(settings, "direction", "windDirection")]
  ELSE LET layers == IF "layers" \in DOMAIN settings THEN settings.layers ELSE <<>>
           n      == Len(layers)
           i      == BoundingPair(alt_, layers, 1)
       IN  IF n = 0 THEN [speed |-> 0, dir |-> 0]
           ELSE IF alt_ <= layers[1].altitude
             THEN [speed |-> layers[1].speed, dir |-> layers[1].direction]
           ELSE IF alt_ >= layers[n].altitude
             THEN [speed |-> layers[n].speed, dir |-> layers[n].direction]
           ELSE IF i # 0 THEN Interpolate(alt_, layers[i], layers[i + 1])
           ELSE [speed |-> 0, dir |-> 0]

\* 180 / Math.PI, in fixed point.
RAD_TO_DEG == 57296

\* A length in mm over a radius in m, as an angle in 1e-9 rad.
NanoRad(d, radius) == Sign(d) * ((Abs(d) * Unit) \div (radius \div Unit))

\* An angle in 1e-9 rad, times 180 / Math.PI, in 1e-7 degrees.
NanoRadToDeg(a) == Mul[a, RAD_TO_DEG] \div 100

\* A latitude (1e-7 degrees) in millidegrees.
MilliDeg(lat_) == Sign(lat_) * (Abs(lat_) \div (DegUnit \div Unit))

\* displaceCoordinate(lat, lon, dx, dy): dx east and dy north, in mm.
displaceCoordinate(lat_, lon_, dx, dy) ==
  LET dLat == NanoRadToDeg(NanoRad(dy, R_EARTH))
      dLon == NanoRadToDeg(NanoRad(dx, Mul[R_EARTH, Cos[MilliDeg(lat_)]]))
  IN  [lat |-> lat_ + dLat, lon |-> lon_ + dLon]

----------------------------------------------------------------------------
(* predictLanding as a state machine: one call at a time, from the call    *)
(* (sanity checks, velocity fusion, initialisation) through the iterations *)
(* of the simulation loop to the return.                                   *)

VARIABLES
  pc,               \* "idle" | "loop" | "done" | "rejected" | "answered"
  \* the arguments of the call
  lat, lon, alt, vSpeedCurrent, hSpeedCurrent, headingCurrent,
  descentSettings, windSettings, landingSettings,
  groundAlt, currentDensity, history,
  \* the locals of predictLanding
  vN_gps, vE_gps, hasGpsVec,
  vN, vE, vU,
  currentLat, currentLon, currentAlt,
  t, steps, isAscending, path,
  nonFinite,        \* a NaN or an infinity has entered the simulated state
  result,           \* the value returned: a LandingPrediction or Null,
                    \* or the value of a direct call of a helper
  query,            \* the arguments of a direct call of getAirDensity or
                    \* getWindAtAltitude; NoQuery otherwise
  earlier           \* a call the caller has made before and the value it
                    \* returned then; NoCall when none is remembered

args == <<lat, lon, alt, vSpeedCurrent, hSpeedCurrent, headingCurrent,
          descentSettings, windSettings, landingSettings,
          groundAlt, currentDensity, history>>

locals == <<vN_gps, vE_gps, hasGpsVec, vN, vE, vU,
            currentLat, currentLon, currentAlt,
            t, steps, isAscending, path, nonFinite>>

vars == <<pc, args, locals, result, query, earlier>>

\* The function's "no prediction" return value.
Null == [null |-> TRUE]

\* No helper is being called directly.
NoQuery == [fn |-> "none"]

\* No earlier call is remembered.
NoCall == [made |-> FALSE]

\* The argument list of the call in progress.
CurrentCall ==
  [lat |-> lat, lon |-> lon, alt |-> alt,
   vSpeedCurrent |-> vSpeedCurrent, hSpeedCurrent |-> hSpeedCurrent,
   headingCurrent |-> headingCurrent,
   descentSettings |-> descentSettings, windSettings |-> windSettings,
   landingSettings |-> landingSettings,
   groundAlt |-> groundAlt, currentDensity |-> currentDensity,
   history |-> history]

dt == 200               \* 0.2 s

MAX_STEPS == 18000

\* metersPerDegLat, geo.ts:197.
METERS_PER_DEG == 111320

----------------------------------------------------------------------------
(* 1. Sanity checks.                                                       *)

\* Rejects with the position test on either coordinate instead of both.
RejectsEitherCoordinate(lat_, lon_, alt_) ==
  \/ alt_ < 5 * Unit
  \/ Abs(lat_) < DegUnit \div 10000
  \/ Abs(lon_) < DegUnit \div 10000

Rejects(lat_, lon_, alt_) ==
  \/ alt_ < 5 * Unit
  \/ Abs(lat_) < DegUnit \div 10000 /\ Abs(lon_) < DegUnit \div 10000

(* 2A. GPS ground-track vector from the history.                           *)

\* A difference of degrees (1e-7) times meters per degree (m): mm.
DegToMeters(d, metersPerDeg) == Mul[d, metersPerDeg \div 10]

\* GpsVector differencing the last sample against the one just before it.
GpsVectorAdjacent(history_) ==
  LET n == Len(history_)
  IN  IF n >= 3
        THEN LET pLast  == history_[n]
                 pPrev  == history_[n - 1]
                 dtHist == pLast.timeElapsed - pPrev.timeElapsed
             IN  IF dtHist > 100 /\ dtHist < 3000
                   THEN [vN  |-> Div[DegToMeters(pLast.latitude - pPrev.latitude,
                                                 METERS_PER_DEG), dtHist],
                         vE  |-> Div[DegToMeters(pLast.longitude - pPrev.longitude,
                                                 Mul[METERS_PER_DEG,
                                                     Cos[MilliDeg(pLast.latitude)]]),
                                     dtHist],
                         has |-> TRUE]
                   ELSE [vN |-> 0, vE |-> 0, has |-> FALSE]
        ELSE [vN |-> 0, vE |-> 0, has |-> FALSE]

GpsVector(history_) ==
  LET n == Len(history_)
  IN  IF n >= 3
        THEN LET pLast  == history_[n]
                 pPrev  == history_[n - 2]
                 dtHist == pLast.timeElapsed - pPrev.timeElapsed
             IN  IF dtHist > 100 /\ dtHist < 3000
                   THEN LET metersPerDegLat == METERS_PER_DEG
                            metersPerDegLon ==
                              Mul[METERS_PER_DEG, Cos[MilliDeg(pLast.latitude)]]
                            dLat == pLast.latitude - pPrev.latitude
                            dLon == pLast.longitude - pPrev.longitude
                        IN  [vN  |-> Div[DegToMeters(dLat, metersPerDegLat), dtHist],
                             vE  |-> Div[DegToMeters(dLon, metersPerDegLon), dtHist],
                             has |-> TRUE]
                   ELSE [vN |-> 0, vE |-> 0, has |-> FALSE]
        ELSE [vN |-> 0, vE |-> 0, has |-> FALSE]

(* 2B. IMU heading vector.                                                 *)

ImuVector(hSpeed, heading) ==
  [vN |-> Mul[hSpeed, Cos[heading]], vE |-> Mul[hSpeed, Sin[heading]]]

(* 2C. Fusion.                                                             *)

\* FusionWeight counting a speed of exactly 5 m/s as guided.
FusionWeightGuidedAtFive(landing, hSpeed) ==
  IF landing.headingSource = "fused"
    THEN IF "gpsWeight" \in DOMAIN landing THEN landing.gpsWeight ELSE 500
  ELSE IF hSpeed >= 5 * Unit THEN 300 ELSE 800

\* The weight of the GPS vector in the fused / auto branch.
FusionWeight(landing, hSpeed) ==
  IF landing.headingSource = "fused"
    THEN IF "gpsWeight" \in DOMAIN landing THEN landing.gpsWeight ELSE 500
  ELSE IF hSpeed > 5 * Unit THEN 300 ELSE 800

\* Blend with the weights of the two vectors exchanged.
BlendExchanged(g, i, gpsWeight) == Mul[g, Unit - gpsWeight] + Mul[i, gpsWeight]

\* (gps * gpsWeight) + (imu * (1 - gpsWeight)).
Blend(g, i, gpsWeight) == Mul[g, gpsWeight] + Mul[i, Unit - gpsWeight]

\* Fuse consulting the policy before the availability of the GPS vector.
FusePolicyFirst(gps, imu, landing, hSpeed) ==
  LET source == landing.headingSource
  IN  IF source = "gps" THEN [vN |-> gps.vN, vE |-> gps.vE]
      ELSE IF source = "imu" \/ ~gps.has THEN [vN |-> imu.vN, vE |-> imu.vE]
      ELSE [vN |-> Blend(gps.vN, imu.vN, FusionWeight(landing, hSpeed)),
            vE |-> Blend(gps.vE, imu.vE, FusionWeight(landing, hSpeed))]

Fuse(gps, imu, landing, hSpeed) ==
  LET source == landing.headingSource
  IN  IF ~gps.has THEN [vN |-> imu.vN, vE |-> imu.vE]
      ELSE IF source = "gps" THEN [vN |-> gps.vN, vE |-> gps.vE]
      ELSE IF source = "imu" THEN [vN |-> imu.vN, vE |-> imu.vE]
      ELSE LET gpsWeight == FusionWeight(landing, hSpeed)
           IN  [vN |-> Blend(gps.vN, imu.vN, gpsWeight),
                vE |-> Blend(gps.vE, imu.vE, gpsWeight)]

----------------------------------------------------------------------------
(* 4. One iteration of the simulation loop, as functions of the state at   *)
(* the top of the iteration.  The names are those of the loop's locals.    *)

\* The loop condition without the step cap.
LoopCondUncapped == ~nonFinite /\ currentAlt > groundAlt

\* The loop condition.  A NaN or -Infinity altitude fails the comparison.
LoopCond == ~nonFinite /\ currentAlt > groundAlt /\ steps < MAX_STEPS

mass ==
  IF isAscending THEN Mul[descentSettings.mass, 2 * Unit]
  ELSE IF descentSettings.mass > 0 THEN descentSettings.mass ELSE 1 * Unit

area ==
  IF isAscending THEN 15
  ELSE IF descentSettings.parachuteArea > 0 THEN descentSettings.parachuteArea
  ELSE 500

\* A drag coefficient whose fallback is taken for the whole profile: the
\* configured value is used only when mass, area and Cd are all positive.
cdJointFallback ==
  IF isAscending THEN 500
  ELSE IF descentSettings.mass > 0 /\ descentSettings.parachuteArea > 0
          /\ descentSettings.dragCoefficient > 0
    THEN descentSettings.dragCoefficient
  ELSE 1500

cd ==
  IF isAscending THEN 500
  ELSE IF descentSettings.dragCoefficient > 0 THEN descentSettings.dragCoefficient
  ELSE 1500

\* An apogee check that waits for a fall of 1 m/s.
ApogeeCheckLate(ascending, vUp) ==
  IF ascending /\ vUp <= -Unit THEN FALSE ELSE ascending

\* The apogee check: the phase flag as the rest of the iteration sees it.
ApogeeCheck(ascending, vUp) == IF ascending /\ vUp <= 0 THEN FALSE ELSE ascending

\* The live reference density handed to getAirDensity in every iteration.
RefDensityAlways(t_, density) == density

\* The reference density handed to getAirDensity at simulated time t_.
RefDensityAt(t_, density) == IF t_ = 0 THEN density ELSE 0

stepDensity == getAirDensity(currentAlt, RefDensityAt(t, currentDensity), alt)

wind == getWindAtAltitude(currentAlt, windSettings)

\* Vectors are records of a north, an east and an up component.
Vec(n, e, u) == [N |-> n, E |-> e, U |-> u]

\* The wind vector pointing where the wind comes from.
WindVectorFrom(w) ==
  LET windFromRad == JsRem[w.dir, 360 * Unit]
  IN  Vec(Mul[w.speed, Cos[windFromRad]], Mul[w.speed, Sin[windFromRad]], 0)

\* The wind as a velocity vector (wN, wE, wU): blowing toward
\* (dir + 180) % 360.
WindVector(w) ==
  LET windToRad == JsRem[w.dir + 180 * Unit, 360 * Unit]
  IN  Vec(Mul[w.speed, Cos[windToRad]], Mul[w.speed, Sin[windToRad]], 0)

\* (relN, relE, relU).
Relative(v, w) == Vec(v.N - w.N, v.E - w.E, v.U - w.U)

\* vRelMag = Math.sqrt(vRelSq).
Magnitude(rel) == Sqrt[Mul[rel.N, rel.N] + Mul[rel.E, rel.E] + Mul[rel.U, rel.U]]

\* dragFactor = -0.5 * stepDensity * vRelMag * cd * area.
DragFactor(rho, vRelMag, cd_, area_) ==
  Mul[Mul[MulDensity[Mul[-500, rho], vRelMag], cd_], area_]

\* A drag force with the vertical relative speed on every axis.
DragForceUniform(factor, rel) ==
  Vec(Mul[factor, rel.U], Mul[factor, rel.U], Mul[factor, rel.U])

\* (fDragN, fDragE, fDragU).
DragForce(factor, rel) == Vec(Mul[factor, rel.N], Mul[factor, rel.E], Mul[factor, rel.U])

\* A gravity force that does not scale with the mass.
GravityUnscaled(mass_) == Mul[-Unit, G]

\* fGravU = -mass * G.
Gravity(mass_) == Mul[-mass_, G]

\* (aN, aE, aU): the net force over the mass (mass_ # 0).
Acceleration(fDrag, fGravU, mass_) ==
  Vec(Div[fDrag.N, mass_], Div[fDrag.E, mass_], Div[fDrag.U + fGravU, mass_])

\* v += a * dt.
Euler(v, a) == Vec(v.N + Mul[a.N, dt], v.E + Mul[a.E, dt], v.U + Mul[a.U, dt])

\* The drag force of the iteration on a vehicle of relative velocity rel.
DragOn(rel) == DragForce(DragFactor(stepDensity, Magnitude(rel), cd, area), rel)

\* The relative velocity, the drag force and the velocity after the
\* iteration, at the top of the iteration.
relVelocity == Relative(Vec(vN, vE, vU), WindVector(wind))

fDrag == DragOn(relVelocity)

nextVelocity == Euler(Vec(vN, vE, vU), Acceleration(fDrag, Gravity(mass), mass))

\* The path array, held as its length and its last element: a point is
\* only ever pushed, and every element is the last one in the state that
\* follows its push.
EmptyPath == [length |-> 0]

\* path.push(point).
Push(p, point) == [length |-> p.length + 1, last |-> point]

\* A point of the path.
Point(la, lo, al) == [lat |-> la, lon |-> lo, alt |-> al]

\* Whether the iteration that brings the step count to n and the altitude to
\* a records a path point.
Records(n, a) == n % 5 = 0 \/ a <= groundAlt

\* The altitude recorded for a simulated altitude a.
RecordedAlt(a) == Max(groundAlt, a)

\* The post-loop fix-up left out.
EnsureGroundOmitted(p) == p

\* The post-loop fix-up: the exact ground point.
EnsureGround(p) ==
  IF p.length > 0 /\ p.last.alt > groundAlt
    THEN Push(p, Point(currentLat, currentLon, groundAlt))
    ELSE p

\* A confidence radius that shrinks with the time of flight.
ConfidenceShrinking(alt_, t_) == 15 * Unit + Mul[alt_, 50] - Mul[t_, 500]

\* The confidence radius.
Confidence(alt_, t_) == 15 * Unit + Mul[alt_, 50] + Mul[t_, 500]

----------------------------------------------------------------------------
(* The actions.                                                            *)

Init ==
  /\ pc = "idle"
  /\ lat = 0 /\ lon = 0 /\ alt = 0
  /\ vSpeedCurrent = 0 /\ hSpeedCurrent = 0 /\ headingCurrent = 0
  /\ descentSettings = [mass |-> 0, parachuteArea |-> 0, dragCoefficient |-> 0]
  /\ windSettings = [mode |-> "single"]
  /\ landingSettings = [headingSource |-> "auto"]
  /\ groundAlt = 0 /\ currentDensity = 0 /\ history = <<>>
  /\ vN_gps = 0 /\ vE_gps = 0 /\ hasGpsVec = FALSE
  /\ vN = 0 /\ vE = 0 /\ vU = 0
  /\ currentLat = 0 /\ currentLon = 0 /\ currentAlt = 0
  /\ t = 0 /\ steps = 0 /\ isAscending = FALSE /\ path = EmptyPath
  /\ nonFinite = FALSE
  /\ result = Null
  /\ query = NoQuery
  /\ earlier = NoCall

\* A call predictLanding(a.lat, ..., a.history): the sanity checks, then the
\* velocity fusion and the initialisation of the simulated state.
Enter(a) ==
  /\ pc = "idle"
  /\ lat' = a.lat /\ lon' = a.lon /\ alt' = a.alt
  /\ vSpeedCurrent' = a.vSpeedCurrent
  /\ hSpeedCurrent' = a.hSpeedCurrent
  /\ headingCurrent' = a.headingCurrent
  /\ descentSettings' = a.descentSettings
  /\ windSettings' = a.windSettings
  /\ landingSettings' = a.landingSettings
  /\ groundAlt' = a.groundAlt
  /\ currentDensity' = a.currentDensity
  /\ history' = a.history
  /\ t' = 0 /\ steps' = 0 /\ path' = EmptyPath /\ nonFinite' = FALSE
  /\ result' = Null
  /\ UNCHANGED <<query, earlier>>
  /\ IF Rejects(a.lat, a.lon, a.alt)
       THEN /\ pc' = "rejected"
            /\ UNCHANGED <<vN_gps, vE_gps, hasGpsVec, vN, vE, vU,
                           currentLat, currentLon, currentAlt, isAscending>>
       ELSE LET gps == GpsVector(a.history)
                imu == ImuVector(a.hSpeedCurrent, a.headingCurrent)
                v   == Fuse(gps, imu, a.landingSettings, a.hSpeedCurrent)
            IN  /\ pc' = "loop"
                /\ vN_gps' = gps.vN /\ vE_gps' = gps.vE /\ hasGpsVec' = gps.has
                /\ vN' = v.vN /\ vE' = v.vE
                /\ vU' = a.vSpeedCurrent
                /\ currentLat' = a.lat /\ currentLon' = a.lon
                /\ currentAlt' = a.alt
                /\ isAscending' = (a.vSpeedCurrent > 0)

\* H, I: the position after the iteration and the path point.
Place(newCoords, alt1) ==
  /\ currentLat' = newCoords.lat
  /\ currentLon' = newCoords.lon
  /\ currentAlt' = alt1
  /\ path' = IF Records(steps + 1, alt1)
               THEN Push(path, Point(newCoords.lat, newCoords.lon, RecordedAlt(alt1)))
               ELSE path

\* G, H: the velocity after the iteration and the displacement it gives.
Move(v1) ==
  /\ vN' = v1.N /\ vE' = v1.E /\ vU' = v1.U
  /\ Place(displaceCoordinate(currentLat, currentLon, Mul[v1.E, dt], Mul[v1.N, dt]),
           currentAlt + Mul[v1.U, dt])

\* One iteration of the while loop with a non-zero mass.
FiniteStep ==
  /\ Move(nextVelocity)
  /\ nonFinite' = FALSE

\* One iteration with mass = 0 (ascent with a zero payload mass): every
\* acceleration is a division by zero.  The vertical one is -Infinity when
\* the drag force is not zero (the altitude becomes -Infinity, which is at
\* or below ground: a point is recorded at ground altitude) and NaN when it
\* is (no comparison with NaN holds, and this is the first iteration, whose
\* step count 1 is no multiple of 5: no point is recorded).  The velocity
\* and position variables keep their old, now meaningless, values;
\* nonFinite says so.
NonFiniteStep ==
  /\ nonFinite' = TRUE
  /\ path' = IF fDrag.U # 0
               THEN Push(path, Point(currentLat, currentLon, groundAlt))
               ELSE path
  /\ UNCHANGED <<vN, vE, vU, currentLat, currentLon, currentAlt>>

\* An iteration that consumes the newest sample of the caller's history.
HistoryConsumed ==
  /\ history' = IF history = <<>> THEN history
                ELSE SubSeq(history, 1, Len(history) - 1)
  /\ UNCHANGED <<lat, lon, alt, vSpeedCurrent, hSpeedCurrent, headingCurrent,
                 descentSettings, windSettings, landingSettings,
                 groundAlt, currentDensity>>

\* The body of predictLanding and the helpers it calls only read the
\* arguments: the history array, the settings objects and the wind layers
\* are the caller's after the call as before it.
ArgumentsKept == UNCHANGED args

\* The step counted without the simulated time advancing.
TickWithoutTime ==
  /\ t' = t
  /\ steps' = steps + 1

\* t += dt; steps++.
Tick ==
  /\ t' = t + dt
  /\ steps' = steps + 1

Step ==
  /\ pc = "loop"
  /\ LoopCond
  /\ isAscending' = ApogeeCheck(isAscending, vU)
  /\ IF mass = 0 THEN NonFiniteStep ELSE FiniteStep
  /\ Tick
  /\ ArgumentsKept
  /\ UNCHANGED <<pc, vN_gps, vE_gps, hasGpsVec, result, query, earlier>>

\* The loop has ended: the ground point, the confidence radius, the return.
Return ==
  /\ pc = "loop"
  /\ ~LoopCond
  /\ path' = EnsureGround(path)
  /\ result' = [lat |-> currentLat, lon |-> currentLon,
                timeToImpact |-> t,
                confidenceRadius |-> Confidence(alt, t),
                path |-> EnsureGround(path)]
  /\ pc' = "done"
  /\ ArgumentsKept
  /\ UNCHANGED <<vN_gps, vE_gps, hasGpsVec, vN, vE, vU,
                 currentLat, currentLon, currentAlt,
                 t, steps, isAscending, nonFinite, query, earlier>>

\* A direct call getWindAtAltitude(alt_, settings), as the flight path
\* visualizer makes for the wind at the vehicle's altitude.
WindCall(alt_, settings) ==
  /\ pc = "idle"
  /\ pc' = "answered"
  /\ query' = [fn |-> "getWindAtAltitude", alt |-> alt_, settings |-> settings]
  /\ result' = getWindAtAltitude(alt_, settings)
  /\ UNCHANGED <<args, locals, earlier>>

\* A direct call getAirDensity(altitude, refDensity, refAlt).
DensityCall(altitude, refDensity, refAlt) ==
  /\ pc = "idle"
  /\ pc' = "answered"
  /\ query' = [fn |-> "getAirDensity", altitude |-> altitude,
                refDensity |-> refDensity, refAlt |-> refAlt]
  /\ result' = getAirDensityValue(altitude, refDensity, refAlt)
  /\ UNCHANGED <<args, locals, earlier>>

\* A call displaceCoordinate(lat_, lon_, dx, dy), as the integrator makes
\* for the displacement of an iteration.
DisplaceCall(lat_, lon_, dx, dy) ==
  /\ pc = "idle"
  /\ pc' = "answered"
  /\ query' = [fn |-> "displaceCoordinate", lat |-> lat_, lon |-> lon_,
                dx |-> dx, dy |-> dy]
  /\ result' = displaceCoordinate(lat_, lon_, dx, dy)
  /\ UNCHANGED <<args, locals, earlier>>

----------------------------------------------------------------------------
(* The calls explored.  Each family varies one group of arguments around   *)
(* a base flight; the arguments are in model units.                        *)

\* The longest history explored.
MaxHist == 3

\* The most wind layers explored.
MaxLayers == 2

\* A parachute profile: 1 kg, 0.5 m^2, Cd 1.5.
Parachute == [mass |-> 1000, parachuteArea |-> 500, dragCoefficient |-> 1500]

Calm == [mode |-> "single", speed |-> 0, direction |-> 0, layers |-> <<>>]

AutoPolicy == [headingSource |-> "auto", gpsWeight |-> 500]

BaseFlight ==
  [lat |-> 145000000, lon |-> 1210000000, alt |-> 5000,
   vSpeedCurrent |-> -5000, hSpeedCurrent |-> 5001, headingCurrent |-> 90000,
   descentSettings |-> Parachute, windSettings |-> Calm,
   landingSettings |-> AutoPolicy,
   groundAlt |-> 0, currentDensity |-> 0, history |-> <<>>]

\* The sanity checks: positions around the 0.0001 degree limit, altitudes
\* around the 5 m limit, ground levels below, at and above the vehicle.
GuardCalls ==
  {[BaseFlight EXCEPT !.lat = la, !.lon = lo, !.alt = al, !.groundAlt = g] :
     la \in {-100, 999, 1000, 145000000},
     lo \in {0, -999, 1000, 1210000000},
     al \in {4999, 5000, 12000},
     g  \in {-1000, 0, 5000, 20000}}

\* History samples: four fixes within a few metres, at times whose
\* differences fall on, inside and outside the (0.1 s, 3.0 s) window.
Samples ==
  {[latitude |-> 145000000, longitude |-> 1210000000, timeElapsed |-> 0],
   [latitude |-> 145000040, longitude |-> 1210000030, timeElapsed |-> 101],
   [latitude |-> 144999990, longitude |-> 1210000020, timeElapsed |-> 3000],
   [latitude |-> 145000015, longitude |-> 1209999990, timeElapsed |-> 3100]}

Histories == UNION {[1..n -> Samples] : n \in 0..MaxHist}

Policies ==
  {[headingSource |-> src, gpsWeight |-> w] :
     src \in {"gps", "imu", "fused", "auto"}, w \in {0, 250, 1000}}
  \cup {[headingSource |-> "fused"]}

\* The velocity fusion: every history and policy, speeds on both sides of
\* the 5 m/s threshold of the auto policy, on a heading of 30 degrees.
FusionCalls ==
  {[BaseFlight EXCEPT !.history = h, !.landingSettings = p,
                      !.hSpeedCurrent = hs, !.headingCurrent = 30000] :
     h \in Histories, p \in Policies, hs \in {5000, 5001}}

\* Wind layers from 10 m up, 15 m apart, veering through north.
Layer(i) ==
  [altitude |-> 10000 + 15000 * (i - 1), speed |-> 2000 * i,
   direction |-> (350000 + 20000 * (i - 1)) % 360000]

Gradient(n) ==
  [mode |-> "gradient", speed |-> 7000, direction |-> 270000,
   layers |-> [i \in 1..n |-> Layer(i)]]

Winds ==
  {Calm,
   [mode |-> "single", speed |-> 10000, direction |-> 0, layers |-> <<>>],
   [mode |-> "single", windSpeed |-> 3000, windDirection |-> 225000],
   [mode |-> "gradient"]}
  \cup {Gradient(n) : n \in 0..MaxLayers + 1}

Profiles ==
  {Parachute,
   [mass |-> 0, parachuteArea |-> 0, dragCoefficient |-> 0],
   [mass |-> 1000, parachuteArea |-> 800, dragCoefficient |-> 1500],
   [mass |-> 500, parachuteArea |-> -1, dragCoefficient |-> 800]}

\* The integrator: descents, a hover and climbs through the wind layers,
\* with and without a live density reading.
FlightCalls ==
  {[BaseFlight EXCEPT !.alt = al, !.vSpeedCurrent = vs, !.hSpeedCurrent = 0,
                      !.descentSettings = d, !.windSettings = w,
                      !.currentDensity = rho] :
     al \in {10000, 25000, 100000}, vs \in {-5000, 0, 8000},
     d \in Profiles, w \in Winds, rho \in {0, 1100000}}

\* A vehicle the model never brings to ground within the step cap: a light
\* payload under a large canopy released at 30 km into a 3 m/s westerly.
Runaway ==
  [BaseFlight EXCEPT !.alt = 30000 * Unit, !.vSpeedCurrent = 0,
                     !.hSpeedCurrent = 0,
                     !.windSettings =
                       [mode |-> "single", speed |-> 3000,
                        direction |-> 270000, layers |-> <<>>],
                     !.descentSettings =
                       [mass |-> 500, parachuteArea |-> 2000,
                        dragCoefficient |-> 1500]]

\* The step cap: the runaway vehicle beside descents that reach ground.
CapCalls ==
  {Runaway} \cup {[BaseFlight EXCEPT !.alt = al] : al \in {5000, 12000, 100000}}

\* Climbs that begin above the 40 km limit of the atmosphere, where the
\* air density is 0, under a payload mass of 0 and of half a kilogram
\* (the latter within 6 m of the ground level it is given).
VacuumCalls ==
  {[BaseFlight EXCEPT !.alt = 41000 * Unit, !.vSpeedCurrent = 8000,
                      !.hSpeedCurrent = hs,
                      !.descentSettings =
                        [mass |-> m, parachuteArea |-> 0, dragCoefficient |-> 0],
                      !.groundAlt = IF m = 0 THEN 0 ELSE 41000 * Unit - 6000] :
     hs \in {0, 5001}, m \in {0, 500}}

\* Descents at 5 m/s a few metres above ground of a light payload under a
\* large canopy (0.5 kg, 2 m^2, Cd 1.5), for which one time step of drag
\* is several times the momentum.
StiffCalls ==
  {[BaseFlight EXCEPT !.alt = al, !.hSpeedCurrent = 0,
                      !.descentSettings =
                        [mass |-> 500, parachuteArea |-> 2000,
                         dragCoefficient |-> 1500]] :
     al \in {6000, 8000}}

Calls ==
  GuardCalls \cup FusionCalls \cup FlightCalls \cup CapCalls \cup VacuumCalls
    \cup StiffCalls

\* The altitudes of the layers of the wind fields queried directly (mm).
LayerAltitudes == {10000, 25000, 40000}

\* The altitudes of a sorted layer list of up to n layers: every
\* non-decreasing sequence, duplicates included.
SortedAltitudes(n) ==
  {a \in UNION {[1..k -> LayerAltitudes] : k \in 0..n} :
     \A i \in 1..Len(a) - 1 : a[i] <= a[i + 1]}

\* The gradient field whose layers lie at the altitudes alts, each layer with
\* a speed and a direction of its own.
Field(alts) ==
  [mode |-> "gradient", speed |-> 7000, direction |-> 270000,
   layers |-> [i \in 1..Len(alts) |->
                 [altitude |-> alts[i], speed |-> 2000 * i,
                  direction |-> (350000 + 20000 * (i - 1)) % 360000]]]

\* The wind fields queried directly: every sorted layer list, a gradient
\* field without a layer list, and the single-mode fields.
QueriedFields ==
  {Field(alts) : alts \in SortedAltitudes(MaxLayers + 2)}
  \cup {[mode |-> "gradient"], Calm,
         [mode |-> "single", windSpeed |-> 3000, windDirection |-> 225000]}

\* The altitudes queried: below, at, midway between and above the layers.
QueriedAltitudes ==
  {-5000, 0, 10000, 13000, 17500, 25000, 32500, 37000, 40000, 60000}

\* The arguments of the direct calls of getAirDensity (m, kg/m^3, m):
\* altitudes around the 40 km limit, reference densities around the 0.1
\* threshold, reference altitudes in and above the troposphere.
QueriedDensityAltitudes == {-1000, 0, 5000, 40000, 40001, 50000}

QueriedRefDensities == {0, 100000, 100001, 1100000}

QueriedRefAltitudes == {0, 5000, 50000}

\* The calls the caller makes a second time: a drift in the north wind, a
\* descent through the wind layers, a call with a full GPS history.
RepeatedCalls ==
  {[BaseFlight EXCEPT !.alt = 100000, !.hSpeedCurrent = 0,
                      !.windSettings = [mode |-> "single", speed |-> 10000,
                                        direction |-> 0, layers |-> <<>>]],
   [BaseFlight EXCEPT !.alt = 25000, !.hSpeedCurrent = 0,
                      !.windSettings = Gradient(MaxLayers)],
   CHOOSE a \in FusionCalls :
     Len(a.history) = MaxHist /\ a.landingSettings.headingSource = "fused"}

\* The calls made once a call is remembered: the repeated ones, a call
\* with other settings and a rejected one.
LaterCalls ==
  RepeatedCalls \cup {BaseFlight, [BaseFlight EXCEPT !.alt = 4000]}

\* What the caller remembers once the call in progress has returned.
RememberedFrom(repeated) ==
  IF pc = "answered" THEN
    IF earlier = NoCall THEN earlier ELSE [earlier EXCEPT !.between = TRUE]
  ELSE IF earlier = NoCall THEN
    IF CurrentCall \in repeated
      THEN [made |-> TRUE, call |-> CurrentCall, result |-> result,
            between |-> FALSE]
      ELSE earlier
  ELSE IF CurrentCall # earlier.call THEN [earlier EXCEPT !.between = TRUE]
  ELSE earlier

\* The caller takes the returned value (setPrediction).  The call's frame is
\* gone and the engine keeps nothing: the state is the initial one again.
\* The caller remembers the first call it makes of those it is going to
\* repeat, with the value returned, and then whether a different call has
\* been made since.
Release ==
  /\ pc \in {"done", "rejected", "answered"}
  /\ pc' = "idle"
  /\ earlier' = RememberedFrom(RepeatedCalls)
  /\ query' = NoQuery
  /\ lat' = 0 /\ lon' = 0 /\ alt' = 0
  /\ vSpeedCurrent' = 0 /\ hSpeedCurrent' = 0 /\ headingCurrent' = 0
  /\ descentSettings' = [mass |-> 0, parachuteArea |-> 0, dragCoefficient |-> 0]
  /\ windSettings' = [mode |-> "single"]
  /\ landingSettings' = [headingSource |-> "auto"]
  /\ groundAlt' = 0 /\ currentDensity' = 0 /\ history' = <<>>
  /\ vN_gps' = 0 /\ vE_gps' = 0 /\ hasGpsVec' = FALSE
  /\ vN' = 0 /\ vE' = 0 /\ vU' = 0
  /\ currentLat' = 0 /\ currentLon' = 0 /\ currentAlt' = 0
  /\ t' = 0 /\ steps' = 0 /\ isAscending' = FALSE /\ path' = EmptyPath
  /\ nonFinite' = FALSE
  /\ result' = Null

\* The dashboard calls the engine with one of the explored argument lists.
Call ==
  /\ pc = "idle"
  /\ \E a \in IF earlier = NoCall THEN Calls ELSE LaterCalls : Enter(a)

\* The visualizer asks for the wind at an altitude.
WindQuery ==
  /\ pc = "idle"
  /\ \E alt_ \in QueriedAltitudes, settings \in QueriedFields :
       WindCall(alt_, settings)

\* A caller asks for the air density.
DensityQuery ==
  /\ pc = "idle"
  /\ \E altitude \in QueriedDensityAltitudes,
        refDensity \in QueriedRefDensities,
        refAlt \in QueriedRefAltitudes :
       DensityCall(altitude * Unit, refDensity, refAlt * Unit)

\* The latitudes (1e-7 degrees) and the displacements (mm) given to
\* displaceCoordinate: none, a step's worth, a metre, one and two kilometres.
DisplacedLatitudes == {0, 145000000, -337500000, 600000000}

Displacements == {-2000000, -1000000, -1000, 0, 400, 1000000, 2000000}

\* The integrator displaces a coordinate.
DisplaceQuery ==
  /\ pc = "idle"
  /\ \E lat_ \in DisplacedLatitudes, dx \in Displacements, dy \in Displacements :
       DisplaceCall(lat_, 1210000000, dx, dy)

Next ==
  \/ Call
  \/ WindQuery
  \/ DensityQuery
  \/ DisplaceQuery
  \/ Step
  \/ Return
  \/ Release

Spec == Init /\ [][Next]_vars

----------------------------------------------------------------------------
(* The wind-layer editor of the settings dialog                            *)
(* (src/components/SettingsModal.tsx): addWindLayer, removeWindLayer and   *)
(* updateWindLayer acting on settings.wind, held in windSettings.  Here a  *)
(* layer's altitude is kept as the editor holds it, a number of metres or  *)
(* NaN (parseFloat of an emptied input field); speed and direction are     *)
(* plain numbers (m/s, degrees).                                           *)

\* The most layers the editor is taken to.
MaxEditorLayers == 3

\* Every variable but windSettings.
besidesWind ==
  <<pc, lat, lon, alt, vSpeedCurrent, hSpeedCurrent, headingCurrent,
    descentSettings, landingSettings, groundAlt, currentDensity, history,
    locals, result, query, earlier>>

\* DEFAULT_SETTINGS.wind.
DefaultWind ==
  [mode |-> "single", speed |-> 5, direction |-> 0,
   layers |-> <<[altitude |-> Finite(0), speed |-> 2, direction |-> 45],
                [altitude |-> Finite(500), speed |-> 5, direction |-> 90],
                [altitude |-> Finite(1000), speed |-> 12, direction |-> 120]>>]

\* The comparator (a, b) => a.altitude - b.altitude as the sort reads it:
\* negative, zero or positive; a NaN difference counts as +0.
CompareAltitude(a, b) ==
  IF a.altitude = NaN \/ b.altitude = NaN THEN 0
  ELSE a.altitude.value - b.altitude.value

\* The position at which a stable sort inserts layer l into the sorted
\* list sorted_: after every element that is not greater.
RECURSIVE InsertSorted(_, _)
InsertSorted(sorted_, l) ==
  IF sorted_ = <<>> THEN <<l>>
  ELSE IF CompareAltitude(l, sorted_[Len(sorted_)]) >= 0 THEN Append(sorted_, l)
  ELSE Append(InsertSorted(SubSeq(sorted_, 1, Len(sorted_) - 1), l),
              sorted_[Len(sorted_)])

\* Array.prototype.sort with a consistent comparator: the stable ascending
\* order.
RECURSIVE StableSort(_)
StableSort(layers) ==
  IF layers = <<>> THEN <<>>
  ELSE InsertSorted(StableSort(SubSeq(layers, 1, Len(layers) - 1)),
                    layers[Len(layers)])

\* The arrays layers.sort((a, b) => a.altitude - b.altitude) can leave.
\* With a NaN altitude the comparator is not consistent (NaN ties with
\* everything) and the order is implementation-defined: any arrangement of
\* the same elements.
SortOutcomes(layers) ==
  IF \A i \in 1..Len(layers) : layers[i].altitude # NaN
    THEN {StableSort(layers)}
    ELSE {[i \in 1..Len(layers) |-> layers[p[i]]] :
            p \in Permutations(1..Len(layers))}

\* The editor is opened on the default settings; no engine call is made.
EditorInit ==
  /\ pc = "idle"
  /\ lat = 0 /\ lon = 0 /\ alt = 0
  /\ vSpeedCurrent = 0 /\ hSpeedCurrent = 0 /\ headingCurrent = 0
  /\ descentSettings = [mass |-> 0, parachuteArea |-> 0, dragCoefficient |-> 0]
  /\ windSettings = DefaultWind
  /\ landingSettings = [headingSource |-> "auto"]
  /\ groundAlt = 0 /\ currentDensity = 0 /\ history = <<>>
  /\ vN_gps = 0 /\ vE_gps = 0 /\ hasGpsVec = FALSE
  /\ vN = 0 /\ vE = 0 /\ vU = 0
  /\ currentLat = 0 /\ currentLon = 0 /\ currentAlt = 0
  /\ t = 0 /\ steps = 0 /\ isAscending = FALSE /\ path = EmptyPath
  /\ nonFinite = FALSE
  /\ result = Null
  /\ query = NoQuery
  /\ earlier = NoCall

\* onUpdate({...settings, wind: {...settings.wind, layers: newLayers}}).
onUpdate(newLayers) ==
  /\ windSettings' = [windSettings EXCEPT !.layers = newLayers]
  /\ UNCHANGED besidesWind

addWindLayer ==
  \E newLayers \in
      SortOutcomes(Append(windSettings.layers,
                          [altitude |-> Finite(1000), speed |-> 5,
                           direction |-> 0])) :
    onUpdate(newLayers)

removeWindLayer(index) ==
  onUpdate(SubSeq(windSettings.layers, 1, index - 1)
             \o SubSeq(windSettings.layers, index + 1,
                       Len(windSettings.layers)))

updateWindLayer(index, field, value) ==
  LET newLayers ==
        [windSettings.layers EXCEPT ![index] = [@ EXCEPT ![field] = value]]
  IN  IF field = "altitude"
        THEN \E sorted_ \in SortOutcomes(newLayers) : onUpdate(sorted_)
        ELSE onUpdate(newLayers)

\* What the input fields of a layer row deliver: parseFloat of the text,
\* NaN for an emptied altitude field.
EditedAltitudes == {Finite(0), Finite(500), Finite(1000), Finite(2000), NaN}

EditedSpeeds == {2, 5}

EditedDirections == {45, 90}

\* The operator's actions on the layer rows; layers are added up to
\* MaxEditorLayers.
AddLayer ==
  /\ Len(windSettings.layers) < MaxEditorLayers
  /\ addWindLayer

RemoveLayer ==
  \E index \in 1..Len(windSettings.layers) : removeWindLayer(index)

UpdateAltitude ==
  \E index \in 1..Len(windSettings.layers), value \in EditedAltitudes :
    updateWindLayer(index, "altitude", value)

UpdateSpeed ==
  \E index \in 1..Len(windSettings.layers), value \in EditedSpeeds :
    updateWindLayer(index, "speed", value)

UpdateDirection ==
  \E index \in 1..Len(windSettings.layers), value \in EditedDirections :
    updateWindLayer(index, "direction", value)

EditorNext ==
  \/ AddLayer
  \/ RemoveLayer
  \/ UpdateAltitude
  \/ UpdateSpeed
  \/ UpdateDirection

EditorSpec == EditorInit /\ [][EditorNext]_vars

----------------------------------------------------------------------------
(* Properties of the engine.                                               *)

\* The call has passed the sanity checks and fused its initial velocity;
\* no iteration has run yet.
Fused == pc = "loop" /\ steps = 0

\* The IMU estimate of the call: hSpeed cos(heading) north, hSpeed
\* sin(heading) east.
ImuNorth == Mul[hSpeedCurrent, Cos[headingCurrent]]

ImuEast == Mul[hSpeedCurrent, Sin[headingCurrent]]

\* The initial horizontal velocity is w GPS + (1 - w) IMU on both axes.
BlendedBy(w) ==
  /\ vN = Mul[vN_gps, w] + Mul[ImuNorth, Unit - w]
  /\ vE = Mul[vE_gps, w] + Mul[ImuEast, Unit - w]

\* C1: the step counter never exceeds 18,000, and every transition out of
\* a loop state either returns or is an iteration that advances the counter
\* by exactly one: a call runs at most 18,000 iterations and then returns.
C1_StepCap ==
  /\ [](steps <= MAX_STEPS)
  /\ [][pc = "loop" => \/ pc' = "done" /\ steps' = steps
                       \/ pc' = "loop" /\ steps' = steps + 1]_vars

\* The loop stopped by the cap with the vehicle still above ground.
C1_CapStopsLoop ==
  pc = "loop" /\ steps = MAX_STEPS /\ currentAlt > groundAlt /\ ~LoopCond

\* C2: the last point of every returned path has altitude exactly
\* groundAlt.
C2_PathEndsAtGround ==
  pc = "done" =>
    /\ result.path.length > 0
    /\ result.path.last.alt = groundAlt

C4_CapResult ==
  pc = "done" /\ steps = MAX_STEPS /\ currentAlt > groundAlt =>
    /\ result # Null
    /\ result.lat = currentLat /\ result.lon = currentLon
    /\ result.timeToImpact = MAX_STEPS * dt
    /\ result.path.length > 0
    /\ result.path.last = Point(currentLat, currentLon, groundAlt)

\* The runaway vehicle has returned, having drifted from where it started.
C4_CapReturned ==
  pc = "done" /\ steps = MAX_STEPS /\ currentAlt > groundAlt
              /\ currentLon # lon

\* C5: the simulated time is 0.2 s times the step count in every state, so
\* timeToImpact is steps x 0.2, is 0 exactly when no iteration ran, and is
\* at most 3,600 s.
C5_TimeIsSteps ==
  /\ t = steps * dt
  /\ pc = "done" =>
       /\ result.timeToImpact = steps * dt
       /\ (result.timeToImpact = 0 <=> steps = 0)
       /\ result.timeToImpact <= 3600 * Unit

\* A run that reached ground after some iterations, before the cap.
C5_Landed ==
  pc = "done" /\ steps > 0 /\ steps < MAX_STEPS /\ currentAlt <= groundAlt

\* C6: without a GPS estimate the initial horizontal velocity is the IMU
\* estimate, whatever the heading source and the GPS weight.
C6_ImuFallback ==
  Fused /\ ~hasGpsVec => vN = ImuNorth /\ vE = ImuEast

\* The GPS policy chosen, three samples in the history, and no estimate.
C6_GpsPolicyWithoutEstimate ==
  /\ Fused /\ ~hasGpsVec
  /\ Len(history) >= 3
  /\ landingSettings.headingSource = "gps"
  /\ hSpeedCurrent > 0

\* C7: with a GPS estimate the initial horizontal velocity is
\* w GPS + (1 - w) IMU, w being 1 for 'gps', 0 for 'imu' and the configured
\* gpsWeight for 'fused'.
C7_WeightedBlend ==
  LET source == landingSettings.headingSource
  IN  /\ Fused /\ hasGpsVec /\ source = "gps" => BlendedBy(Unit)
      /\ Fused /\ hasGpsVec /\ source = "imu" => BlendedBy(0)
      /\ Fused /\ hasGpsVec /\ source = "fused"
           /\ "gpsWeight" \in DOMAIN landingSettings
           => BlendedBy(landingSettings.gpsWeight)

\* A fused call with weight 0.25 whose GPS and IMU estimates differ on both
\* axes.
C7_FusedQuarter ==
  /\ Fused /\ hasGpsVec
  /\ landingSettings.headingSource = "fused"
  /\ "gpsWeight" \in DOMAIN landingSettings
  /\ landingSettings.gpsWeight = 250
  /\ vN_gps # ImuNorth /\ vE_gps # ImuEast

\* C8: under 'auto' with a GPS estimate the weight of the GPS estimate is
\* 0.3 when hSpeed > 5 m/s and 0.8 otherwise, whatever gpsWeight is
\* configured.
C8_AutoWeight ==
  Fused /\ hasGpsVec /\ landingSettings.headingSource = "auto" =>
    /\ FusionWeight(landingSettings, hSpeedCurrent)
         = IF hSpeedCurrent > 5 * Unit THEN 300 ELSE 800
    /\ BlendedBy(IF hSpeedCurrent > 5 * Unit THEN 300 ELSE 800)

\* An auto call at exactly 5 m/s, configured with a weight that is neither
\* 0.3 nor 0.8, whose GPS and IMU estimates differ.
C8_AutoAtFive ==
  /\ Fused /\ hasGpsVec
  /\ landingSettings.headingSource = "auto"
  /\ hSpeedCurrent = 5 * Unit
  /\ landingSettings.gpsWeight = 250
  /\ vN_gps # ImuNorth /\ vE_gps # ImuEast

\* The history with every sample but the last replaced by the sample two
\* indices before the last.
OnlyEnds(h) == [i \in 1..Len(h) |-> IF i = Len(h) THEN h[Len(h)] ELSE h[Len(h) - 2]]

\* C9: a GPS estimate is available exactly when the history has at least
\* 3 samples and the time from the sample two indices before the last to
\* the last is strictly between 0.1 s and 3.0 s; the estimate depends on
\* those two samples only.
C9_GpsAvailability ==
  pc \in {"loop", "done"} =>
    LET n == Len(history)
    IN  /\ hasGpsVec <=>
             /\ n >= 3
             /\ history[n].timeElapsed - history[n - 2].timeElapsed > Unit \div 10
             /\ history[n].timeElapsed - history[n - 2].timeElapsed < 3 * Unit
        /\ hasGpsVec =>
             /\ vN_gps = GpsVector(OnlyEnds(history)).vN
             /\ vE_gps = GpsVector(OnlyEnds(history)).vE
        /\ ~hasGpsVec => vN_gps = 0 /\ vE_gps = 0

\* An estimate taken across a middle sample that differs from both ends and
\* lies exactly 0.1 s before the last.
C9_EstimateAcrossMiddle ==
  /\ Fused /\ hasGpsVec
  /\ Len(history) = 3
  /\ history[2] # history[1] /\ history[2] # history[3]
  /\ history[3].timeElapsed - history[2].timeElapsed = Unit \div 10
  /\ vN_gps # 0 /\ vE_gps # 0

\* The layers of the wind field in effect.
Layers == IF "layers" \in DOMAIN windSettings THEN windSettings.layers ELSE <<>>

\* The wind read at the current altitude is that of layer l.
WindIs(l) == wind = [speed |-> l.speed, dir |-> l.direction]

\* C10: in gradient mode with layers, the wind at or below the lowest
\* layer's altitude is the lowest layer's and the wind at or above the
\* highest layer's altitude is the highest layer's; with a single layer it
\* is that layer's at every altitude.
C10_GradientClamps ==
  pc = "loop" /\ windSettings.mode = "gradient" /\ Len(Layers) > 0 =>
    /\ currentAlt <= Layers[1].altitude => WindIs(Layers[1])
    /\ currentAlt >= Layers[Len(Layers)].altitude => WindIs(Layers[Len(Layers)])
    /\ Len(Layers) = 1 => WindIs(Layers[1])

\* A descent through two or more layers that has come below the lowest.
C10_BelowLowest ==
  /\ pc = "loop" /\ steps > 0
  /\ windSettings.mode = "gradient" /\ Len(Layers) >= 2
  /\ currentAlt < Layers[1].altitude
  /\ currentAlt > groundAlt

\* A direct call of getWindAtAltitude has returned.
WindAnswered == pc = "answered" /\ query.fn = "getWindAtAltitude"

\* The layers of the queried field (none when the field is absent).
QueryLayers ==
  IF "layers" \in DOMAIN query.settings THEN query.settings.layers ELSE <<>>

\* The queried field is a gradient of two or more layers.
GradientAnswered ==
  WindAnswered /\ query.settings.mode = "gradient" /\ Len(QueryLayers) >= 2

StrictlyIncreasing(layers) ==
  \A i \in 1..(Len(layers) - 1) : layers[i].altitude < layers[i + 1].altitude

\* C11 (amended): for every gradient field of two or more layers whose
\* altitudes are strictly increasing, a query at the exact altitude of any
\* layer (first, last or interior) returns that layer's speed and direction.
C11_LayerAltitudes ==
  GradientAnswered /\ StrictlyIncreasing(QueryLayers) =>
    \A k \in 1..Len(QueryLayers) :
      query.alt = QueryLayers[k].altitude => result = LayerValueOf(QueryLayers[k])

\* C11 as stated: the same for every sorted layer list, layers that share
\* an altitude included.
C11_AnySortedLayers ==
  GradientAnswered =>
    \A k \in 1..Len(QueryLayers) :
      query.alt = QueryLayers[k].altitude => result = LayerValueOf(QueryLayers[k])

\* A query at the exact altitude of the interior layer of three strictly
\* increasing layers.
C11_InteriorLayerQueried ==
  /\ GradientAnswered /\ Len(QueryLayers) = 3
  /\ StrictlyIncreasing(QueryLayers)
  /\ query.alt = QueryLayers[2].altitude

\* The queried altitude lies strictly between layers i and i + 1.
Between(i) ==
  /\ QueryLayers[i].altitude < query.alt
  /\ query.alt < QueryLayers[i + 1].altitude

\* The altitude fraction of the query between layers i and i + 1.
Fraction(i) ==
  Div[query.alt - QueryLayers[i].altitude,
      QueryLayers[i + 1].altitude - QueryLayers[i].altitude]

\* C12: between two adjacent layers the result is
\* lower + (upper - lower) * fraction for speed and for direction; at the
\* midpoint it is the arithmetic mean of the two layers; the direction is
\* blended on the raw degrees with no wraparound, so layers at 350 and 10
\* degrees give 180 degrees at the midpoint.
C12_LinearBetweenLayers ==
  GradientAnswered =>
    \A i \in 1..(Len(QueryLayers) - 1) :
      Between(i) =>
        LET lower == QueryLayers[i]
            upper == QueryLayers[i + 1]
        IN  /\ result.speed
                 = lower.speed + Mul[upper.speed - lower.speed, Fraction(i)]
            /\ result.dir
                 = lower.direction
                     + Mul[upper.direction - lower.direction, Fraction(i)]
            /\ 2 * query.alt = lower.altitude + upper.altitude =>
                 /\ 2 * result.speed = lower.speed + upper.speed
                 /\ 2 * result.dir = lower.direction + upper.direction
                 /\ lower.direction = 350000 /\ upper.direction = 10000 =>
                      result.dir = 180000

\* A query at the midpoint between a layer at 350 degrees and the next at
\* 10 degrees.
C12_MidpointAcrossNorth ==
  /\ GradientAnswered
  /\ \E i \in 1..(Len(QueryLayers) - 1) :
       /\ Between(i)
       /\ 2 * query.alt = QueryLayers[i].altitude + QueryLayers[i + 1].altitude
       /\ QueryLayers[i].direction = 350000
       /\ QueryLayers[i + 1].direction = 10000

NoWind == [speed |-> 0, dir |-> 0]

\* C13: in gradient mode with an empty or a missing layer set the wind is
\* speed 0, direction 0 at every altitude, whatever speed and direction the
\* settings carry besides, and every iteration of the integrator sees the
\* zero wind vector.
C13_EmptyGradientIsCalm ==
  /\ WindAnswered /\ query.settings.mode = "gradient" /\ Len(QueryLayers) = 0
       => result = NoWind
  /\ pc = "loop" /\ windSettings.mode = "gradient" /\ Len(Layers) = 0
       => wind = NoWind /\ WindVector(wind) = Vec(0, 0, 0)

\* An iteration of a flight through a gradient field that carries a base
\* speed and no layers.
C13_FlightThroughEmptyGradient ==
  /\ pc = "loop" /\ steps > 0
  /\ windSettings.mode = "gradient" /\ Len(Layers) = 0
  /\ "speed" \in DOMAIN windSettings /\ windSettings.speed > 0

\* A direct call of getAirDensity has returned.
DensityAnswered == pc = "answered" /\ query.fn = "getAirDensity"

\* C14: getAirDensity returns 0 above 40,000 m whatever the reference
\* arguments, and for every combination of altitude, referenceDensity and
\* referenceAltitude it returns a finite, non-negative number.
C14_FiniteNonNegative ==
  DensityAnswered =>
    /\ query.altitude > 40000 * Unit => result = Finite(0)
    /\ result # NaN
    /\ result.value >= 0

\* Increments of the altitude (mm) and of the time of flight (ms).
Increments == {1, dt, Unit, 100 * Unit}

\* C15: the confidence radius returned is
\* 15 + 0.05 * (initial altitude) + 0.5 * timeToImpact; it is strictly
\* positive, timeToImpact is >= 0, and the radius does not decrease when
\* the altitude or the time to impact increases.
C15_ConfidenceRadius ==
  pc = "done" =>
    /\ 20 * result.confidenceRadius
         = 300 * Unit + alt + 10 * result.timeToImpact
    /\ result.confidenceRadius > 0
    /\ result.timeToImpact >= 0
    /\ \A d \in Increments :
         /\ Confidence(alt + d, result.timeToImpact) >= result.confidenceRadius
         /\ Confidence(alt, result.timeToImpact + d) >= result.confidenceRadius

\* A result whose radius carries a share of the time of flight.
C15_RadiusAfterFlight ==
  /\ pc = "done"
  /\ result.timeToImpact > 0
  /\ result.confidenceRadius > 15 * Unit + Mul[alt, 50]

\* A call of predictLanding is in its loop or has returned a result.
InFlight == pc \in {"loop", "done"}

\* The field has no wind at any altitude.
ZeroWind ==
  \/ windSettings.mode = "single"
       /\ Coalesce(windSettings, "speed", "windSpeed") = 0
  \/ windSettings.mode = "gradient" /\ Len(Layers) = 0

\* A run that starts in descent with no horizontal speed and no usable GPS
\* history.
StraightDescent ==
  /\ InFlight
  /\ vSpeedCurrent <= 0 /\ hSpeedCurrent = 0 /\ ~hasGpsVec

\* The reference descent: mass 1.0 kg, area 0.5 m^2, Cd 1.5, from 100 m at
\* -5 m/s to ground level 0.
ReferenceDescent ==
  /\ StraightDescent
  /\ descentSettings = Parachute
  /\ alt = 100 * Unit /\ vSpeedCurrent = -5 * Unit /\ groundAlt = 0

\* C16: with zero wind, zero horizontal speed and no usable GPS history, a
\* descending run keeps its north and east velocities at 0 in every step,
\* every path point and the landing point have the starting latitude and
\* longitude, the path ends at altitude 0, and timeToImpact is positive
\* and finite: the ground is reached before the step cap.
C16_StraightDown ==
  StraightDescent /\ ZeroWind =>
    /\ vN = 0 /\ vE = 0
    /\ currentLat = lat /\ currentLon = lon
    /\ path.length > 0 => path.last.lat = lat /\ path.last.lon = lon
    /\ pc = "done" /\ groundAlt = 0 =>
         /\ result.lat = lat /\ result.lon = lon
         /\ result.path.length > 0
         /\ result.path.last = Point(lat, lon, 0)
         /\ result.timeToImpact > 0
         /\ steps < MAX_STEPS
         /\ ~nonFinite

\* The reference descent has landed in calm air.
C16_ReferenceLanded ==
  ReferenceDescent /\ ZeroWind /\ pc = "done"

\* A single-mode wind from direction 0 (north) with a positive speed.
NorthWind ==
  /\ windSettings.mode = "single"
  /\ Coalesce(windSettings, "speed", "windSpeed") > 0
  /\ Coalesce(windSettings, "direction", "windDirection") = 0

\* C17: in the straight descent with a wind from direction 0 the wind
\* velocity of every step points south (north = -speed, east 0), the
\* vehicle's north velocity is <= 0 after every step, and the landing point
\* lies south of the starting point, where the zero-wind run lands (lower
\* latitude, unchanged longitude), by a displacement that grows with every
\* step of the time of flight.
C17_NorthWindDrift ==
  /\ [](StraightDescent /\ NorthWind =>
          /\ pc = "loop" =>
               WindVector(wind) = Vec(-Coalesce(windSettings, "speed", "windSpeed"), 0, 0)
          /\ vN <= 0 /\ vE = 0
          /\ currentLon = lon
          /\ steps > 0 => vN < 0 /\ currentLat < lat
          /\ pc = "done" => result.lat < lat /\ result.lon = lon)
  /\ [][StraightDescent /\ NorthWind /\ pc = "loop" /\ pc' = "loop" =>
          currentLat' < currentLat /\ t' > t]_vars

\* The reference descent has landed in a 10 m/s wind from the north.
C17_ReferenceDrifted ==
  /\ ReferenceDescent /\ NorthWind /\ pc = "done"
  /\ Coalesce(windSettings, "speed", "windSpeed") = 10 * Unit
  /\ result.lat < lat

\* A call of predictLanding has returned (a prediction or null).
Returned == pc \in {"done", "rejected"}

AtRestInAir == pc = "loop" /\ LoopCond /\ relVelocity = Vec(0, 0, 0)

\* C19: in an iteration whose relative velocity is zero on all three axes
\* the drag force is zero on every axis and the acceleration is gravity
\* alone (0 north, 0 east, -9.81 up); its forces are computed with the
\* flag descending and a non-zero mass, and no iteration computed with the
\* flag descending, this one or a later one of the call, brings a NaN or
\* an infinity into the simulated state.
C19_AtRestIsFreeFall ==
  /\ [](AtRestInAir =>
          /\ fDrag = Vec(0, 0, 0)
          /\ mass # 0
          /\ Acceleration(fDrag, Gravity(mass), mass) = Vec(0, 0, -G)
          /\ nextVelocity = Vec(vN, vE, vU - Mul[G, dt])
          /\ ~nonFinite
          /\ ~ApogeeCheck(isAscending, vU))
  /\ [][pc = "loop" /\ ~ApogeeCheck(isAscending, vU) =>
          ~nonFinite' /\ ~isAscending']_vars

\* The second iteration of a run that began at rest in the air, under a
\* payload of half a kilogram.
C19_FellFromRest ==
  /\ pc = "loop" /\ steps = 1
  /\ vSpeedCurrent = 0 /\ vN = 0 /\ vE = 0 /\ ZeroWind
  /\ vU = -Mul[G, dt]
  /\ descentSettings.mass = 500

\* C20: the phase flag starts as ascending iff the initial vertical speed
\* is > 0; an iteration that begins with vUp <= 0 flips it to descending
\* (the check precedes the forces of that iteration, so the flag is
\* descending from the first such iteration on), an iteration that begins
\* with vUp > 0 leaves it alone, and once descending it stays descending
\* for the rest of the call: at most one apogee transition per call.
C20_PhaseFlag ==
  /\ [](pc = "loop" /\ steps = 0 => isAscending = (vSpeedCurrent > 0))
  /\ [][pc = "loop" /\ steps' = steps + 1 =>
          isAscending' = (isAscending /\ vU > 0)]_vars
  /\ [][pc = "loop" /\ ~isAscending => ~isAscending']_vars

\* A climb has passed its apogee: the call began ascending and the flag is
\* descending, the run still above ground.
C20_PastApogee ==
  /\ pc = "loop" /\ LoopCond
  /\ vSpeedCurrent > 0
  /\ ~isAscending

\* An iteration is about to run.
Iterating == pc = "loop" /\ LoopCond

\* A configured value, or its fallback when the value is <= 0.
OrFallback(value, fallback) == IF value > 0 THEN value ELSE fallback

C22_LiveDensityFirstStepOnly ==
  Iterating =>
    /\ (t = 0) = (steps = 0)
    /\ steps = 0 => stepDensity = getAirDensity(currentAlt, currentDensity, alt)
    /\ steps > 0 =>
         /\ stepDensity = getAirDensity(currentAlt, 0, alt)
         /\ stepDensity
              = IF currentAlt > 40000 * Unit THEN 0 ELSE IsaDensity[currentAlt]

\* A later iteration of a call that was given a live reading which the
\* calibration would have used.
C22_ReadingDropped ==
  /\ Iterating /\ steps > 0
  /\ currentDensity > 100000
  /\ stepDensity # getAirDensity(currentAlt, currentDensity, alt)

\* An iteration is taken: the step count advances.
Iterated == pc = "loop" /\ steps' = steps + 1

\* C23: a path point is appended inside the loop exactly after the
\* iterations whose step count is a multiple of 5 or after which the
\* altitude is <= groundAlt; the final iteration of every run is one of
\* them; each appended point has altitude max(groundAlt, altitude), so
\* every path point's altitude is >= groundAlt; and the path has at most
\* floor(steps / 5) + 2 points.
C23_PathPoints ==
  /\ [][Iterated /\ ~nonFinite' =>
          IF steps' % 5 = 0 \/ currentAlt' <= groundAlt
            THEN path' = Push(path, Point(currentLat', currentLon',
                                          Max(groundAlt, currentAlt')))
            ELSE path' = path]_vars
  /\ [][Iterated /\ ~LoopCond' => path'.length = path.length + 1]_vars
  /\ [](InFlight /\ path.length > 0 => path.last.alt >= groundAlt)
  /\ [](InFlight => path.length <= (steps \div 5) + 2)

\* C23 without the sentence on the final iteration.
C23_PointsOfFiniteRuns ==
  /\ [][Iterated /\ ~nonFinite' =>
          IF steps' % 5 = 0 \/ currentAlt' <= groundAlt
            THEN path' = Push(path, Point(currentLat', currentLon',
                                          Max(groundAlt, currentAlt')))
            ELSE path' = path]_vars
  /\ [][Iterated /\ ~LoopCond' /\ ~nonFinite' =>
          path'.length = path.length + 1]_vars
  /\ [](InFlight /\ path.length > 0 => path.last.alt >= groundAlt)
  /\ [](InFlight => path.length <= (steps \div 5) + 2)

\* A call of displaceCoordinate has returned.
Displaced == pc = "answered" /\ query.fn = "displaceCoordinate"

\* The rounding of the fixed-point conversions on a length d (mm): half a
\* thousandth of the length and two units of 1e-7 degrees.
RoundingOn(d) == Abs(d) \div 2000 + 25

\* C24: the integrator converts a north/east displacement in meters to
\* degrees with the approximation the GPS estimate uses to convert degrees
\* to meters (111,320 m per degree of latitude, longitude scaled by
\* cos(latitude)), so a displacement converted to degrees and back gives
\* the same meters.
C24_RoundTripMeters ==
  Displaced =>
    /\ Abs(DegToMeters(result.lat - query.lat, METERS_PER_DEG) - query.dy)
         <= RoundingOn(query.dy)
    /\ Abs(DegToMeters(result.lon - query.lon,
                       Mul[METERS_PER_DEG, Cos[MilliDeg(query.lat)]]) - query.dx)
         <= RoundingOn(query.dx)

\* C25: in every iteration of every call that is not rejected, the mass
\* that divides the forces is strictly positive, ascending or descending
\* and also under a configured payload mass <= 0, so no iteration divides
\* by zero and the simulated state never becomes NaN or infinite.
C25_PositiveMass ==
  /\ Iterating => mass > 0
  /\ InFlight => ~nonFinite

\* C26: in every iteration the aerodynamic parameters of the force
\* calculation match the phase flag as it is when the forces are computed,
\* after the apogee check: the ascent heuristics only if the flag is still
\* ascending, the parachute profile in every iteration whose forces are
\* computed with the flag descending, the apogee iteration included.
C26_ParametersMatchFlag ==
  Iterating =>
    IF ApogeeCheck(isAscending, vU)
      THEN mass = 2 * descentSettings.mass /\ area = 15 /\ cd = 500
      ELSE /\ mass = OrFallback(descentSettings.mass, 1 * Unit)
           /\ area = OrFallback(descentSettings.parachuteArea, 500)
           /\ cd = OrFallback(descentSettings.dragCoefficient, 1500)

\* C27: once the phase flag is descending the vertical velocity after
\* every iteration is <= 0 and the altitude does not increase until the
\* loop ends: the explicit Euler drag update never reverses the sign of the
\* vertical velocity, for any positive mass, area and drag coefficient.
C27_NoUpwardOvershoot ==
  [][Iterated /\ ~ApogeeCheck(isAscending, vU) =>
       vU' <= 0 /\ currentAlt' <= currentAlt]_vars

\* C28: every result returned by predictLanding has a non-empty path whose
\* last point has the latitude and longitude of the landing point, for
\* every input that is not rejected, ground levels at or above the
\* starting altitude included.
C28_PathEndsAtLanding ==
  pc = "done" =>
    /\ result.path.length > 0
    /\ result.path.last.lat = result.lat
    /\ result.path.last.lon = result.lon

\* The editor's layer list is in ascending order of altitude.
Ascending(layers) ==
  \A i \in 1..(Len(layers) - 1) :
    /\ layers[i].altitude # NaN /\ layers[i + 1].altitude # NaN
    /\ layers[i].altitude.value <= layers[i + 1].altitude.value

\* C29: after any sequence of addWindLayer, removeWindLayer and
\* updateWindLayer operations from a layer list sorted by ascending
\* altitude, the layer list handed to the engine is sorted by ascending
\* altitude.
C29_EditorKeepsSorted == Ascending(windSettings.layers)

\* The queried altitude is strictly inside the span of the layers, where
\* neither clamp answers.
InsideLayers ==
  /\ query.alt > QueryLayers[1].altitude
  /\ query.alt < QueryLayers[Len(QueryLayers)].altitude

\* C30: for every gradient layer list sorted by ascending altitude,
\* duplicate altitudes allowed, and every altitude, a clamp or a bounding
\* pair answers: the final fallback {speed 0, direction 0} is not reached,
\* and the bounding pair that answers has layers at different altitudes, so
\* the altitude fraction is not a division by zero.
C30_PairAlwaysFound ==
  WindAnswered /\ query.settings.mode = "gradient" /\ Len(QueryLayers) > 0
    /\ InsideLayers =>
      LET i == BoundingPair(query.alt, QueryLayers, 1)
      IN  /\ i # 0
          /\ QueryLayers[i + 1].altitude - QueryLayers[i].altitude > 0
          /\ result = Interpolate(query.alt, QueryLayers[i], QueryLayers[i + 1])

\* A query at an altitude that two interior layers share.
C30_SharedInteriorAltitude ==
  /\ GradientAnswered /\ InsideLayers
  /\ \E k \in 2..(Len(QueryLayers) - 2) :
       /\ QueryLayers[k].altitude = query.alt
       /\ QueryLayers[k + 1].altitude = query.alt

============================================================================
